---- MODULE Spec2Model ----
(***************************************************************************)
(* Model of youtube_downloader_PYFFMPEG.py: the three acquisition entry    *)
(* points (download_audio, download_video, download_video_protools), the   *)
(* progress/post-processor hooks and the spinner ("Progress Coordinator"). *)
(* The extraction service (yt_dlp.YoutubeDL.download) is the environment:  *)
(* it calls the hooks and then returns or raises.                          *)
(***************************************************************************)
EXTENDS Integers, Sequences, FiniteSets, TLC

\* ---------------------------------------------------------------- bounds
MaxThreads == 2      \* thread objects that can exist at once
MaxFrames == 1       \* spinner frames written per attempt
MaxProgress == 1     \* 'downloading' progress events per attempt
MaxHooks == 3        \* post-processor hook events per attempt
MaxRenderErrors == 1 \* failing frame writes per attempt
MaxCalls == 4        \* start/stop calls made by the concurrent callers

Tasks == {1, 2}

Tids == 1..MaxThreads
None == 0

VARIABLES
    spinner_running,   \* global flag, line 39
    spinner_thread,    \* global thread reference (None or a thread), line 40
    thr,               \* per thread: "unborn", "check", "print" or "dead"
    stopped,           \* threads whose stop_spinner() has printed and returned
    pc,                \* position of the primary task
    mode,              \* acquisition entry point being executed
    i,                 \* index of the for-loop over the plan
    phase,             \* phase of the running service invocation
    executed,          \* option bundles handed to the service in this call
    outcomes,          \* what the service answered to each invocation
    report,            \* lines printed by the acquisition function
    term,              \* lines written by hooks and spinner in this attempt
    hooks,             \* post-processor hook events of this attempt
    cycles,            \* completed Idle->Running->Idle cycles in this attempt
    plan,              \* the local list the entry point iterates over
    ffmpeg_path,       \* main_menu: result of get_ffmpeg_path
    startup_out,       \* lines printed by main_menu before its loop
    choice,            \* main_menu: the menu choice being served
    url,               \* main_menu: the stripped URL
    output_path,       \* main_menu: the directory from get_output_path
    menu_out,          \* lines printed by main_menu in this iteration
    downloads,         \* file system: state of the default Downloads path
    tpc,               \* concurrent callers of start/stop: position of each
    tjoin,             \* concurrent callers: the thread object being joined
    ncalls             \* concurrent callers: calls made so far

vars == <<spinner_running, spinner_thread, thr, stopped, pc, mode, i, phase,
          executed, outcomes, report, term, hooks, cycles, plan, ffmpeg_path,
          startup_out, choice, url, output_path, menu_out, downloads,
          tpc, tjoin, ncalls>>

spinnerVars == <<spinner_running, spinner_thread, thr, stopped>>

raceVars == <<tpc, tjoin, ncalls>>

menuVars == <<ffmpeg_path, startup_out, choice, url, output_path, menu_out,
              downloads>>

\* ------------------------------------------------------- plans and options
Modes == {"audio", "video", "protools"}

format_attempts ==
    << "bv*[vcodec^=avc1][ext=mp4]+ba[ext=m4a]/b[ext=mp4]/best",
       "bestvideo[ext=mp4]+bestaudio[ext=m4a]/best[ext=mp4]/best",
       "bestvideo+bestaudio/best" >>

base_formats ==
    << "bv*[vcodec^=avc1][ext=mp4][height<=1080]+ba[ext=m4a]",
       "bestvideo[ext=mp4]+bestaudio[ext=m4a]",
       "best" >>

audio_format == << "bestaudio[ext=m4a]/bestaudio/best" >>

\* variant: the editing-suite function iterates the other function's list
PlanOf_swapped(m) ==
    CASE m = "audio" -> audio_format
      [] m = "video" -> format_attempts
      [] m = "protools" -> format_attempts
      [] OTHER -> << >>

PlanOf(m) ==
    CASE m = "audio" -> audio_format
      [] m = "video" -> format_attempts
      [] m = "protools" -> base_formats
      [] OTHER -> << >>

\* the option bundle built for one attempt
ydl_opts(m, fmt) ==
    [ format |-> fmt,
      outtmpl |-> output_path,
      ffmpeg_location |-> ffmpeg_path,
      merge_output_format |-> IF m = "audio" THEN "none" ELSE "mp4",
      postprocessors |-> IF m = "audio" THEN "FFmpegExtractAudio" ELSE "none",
      postprocessor_args |-> IF m = "protools" THEN "libx264/aac" ELSE "none" ]

\* ------------------------------------------------------------------ errors
\* An error of the service: the exception class the code can catch on, the
\* cause, and the attempt it belongs to (its detail text).
ErrKinds == {"format", "network", "invalid_url", "engine", "internal"}

ClassOf(kind) == IF kind = "internal" THEN "Exception" ELSE "DownloadError"

\* causes that can occur in each phase of an invocation
KindsAt(ph) ==
    CASE ph = "begin" -> {"format", "network", "invalid_url", "internal"}
      [] ph = "download" -> {"network", "internal"}
      [] ph = "post" -> {"engine", "internal"}

Err(kind, at) == [cls |-> ClassOf(kind), kind |-> kind, at |-> at]
NoErr == [cls |-> "none", kind |-> "none", at |-> 0]

\* ------------------------------------------------------------ printed lines
\* A printed line: its kind, the format selectors its text names and the
\* error details its text carries.
Msg(type, fmts, errs) == [type |-> type, fmts |-> fmts, errs |-> errs]

\* "Tentando formato: {fmt}" / "Formato PT: {fmt}"
TryingMsg(m, fmt) == Msg("trying", <<fmt>>, << >>)

\* "Download de video concluido!" / "Video PT concluido!" / audio
SuccessMsg(m) == Msg("concluded", << >>, << >>)

\* variant: the failure line leaves out the error text
FailedMsg_noReason(m, fmt, e) ==
    IF m = "protools" THEN Msg("failed", <<fmt>>, << >>)
                      ELSE Msg("failed", << >>, << >>)

\* "Falhou: {err}" / "Falhou formato '{fmt}': {err}"
FailedMsg(m, fmt, e) ==
    IF m = "protools" THEN Msg("failed", <<fmt>>, <<e>>)
                      ELSE Msg("failed", << >>, <<e>>)

\* "Erro inesperado: {e}" / "Erro durante o download de audio: {e}"
UnexpectedMsg(m, e) ==
    IF m = "audio" THEN Msg("audio_error", << >>, <<e>>)
                   ELSE Msg("unexpected", << >>, <<e>>)

\* the fixed line printed after the loop
ExhaustedMsg(m) == Msg("exhausted", << >>, << >>)

\* "Baixando audio..."
AudioStartMsg == Msg("audio_start", << >>, << >>)

Line(type, tid) == [type |-> type, tid |-> tid]

Count(s, type) == Cardinality({k \in DOMAIN s : s[k].type = type})

Alive == {t \in Tids : thr[t] \in {"check", "print"}}

Last(s) == s[Len(s)]

\* get_ffmpeg_path: the binary's path, or None when it cannot be located
FfmpegBin == "ffmpeg_bin"
NoPath == "None"

Init ==
    /\ spinner_running = FALSE
    /\ spinner_thread = None
    /\ thr = [t \in Tids |-> "unborn"]
    /\ stopped = {}
    /\ pc = "start"
    /\ mode = "none"
    /\ i = 0
    /\ phase = "none"
    /\ executed = << >>
    /\ outcomes = << >>
    /\ report = << >>
    /\ term = << >>
    /\ hooks = << >>
    /\ cycles = 0
    /\ plan = << >>
    /\ ffmpeg_path = NoPath
    /\ startup_out = << >>
    /\ choice = "none"
    /\ url = << >>
    /\ output_path = << >>
    /\ menu_out = << >>
    /\ downloads \in {"dir", "absent"}
    /\ tpc = [k \in Tasks |-> "idle"]
    /\ tjoin = [k \in Tasks |-> None]
    /\ ncalls = 0

\* ----------------------------------------------------------------- spinner
\* variant: the loop never re-reads the flag as False (`while True`)
SpinnerCheck_noExit(t) ==
    /\ thr[t] = "check"
    /\ IF spinner_running
         THEN /\ Count(term, "frame") < MaxFrames
              /\ thr' = [thr EXCEPT ![t] = "print"]
         ELSE UNCHANGED thr
    /\ UNCHANGED <<spinner_running, spinner_thread, stopped, pc, mode, i,
                   phase, executed, outcomes, report, term, hooks, cycles,
                   plan, menuVars>>
    /\ UNCHANGED raceVars

\* one pass of the loop test `while spinner_running`
SpinnerCheck(t) ==
    /\ thr[t] = "check"
    /\ IF spinner_running
         THEN /\ Count(term, "frame") < MaxFrames
              /\ thr' = [thr EXCEPT ![t] = "print"]
         ELSE thr' = [thr EXCEPT ![t] = "dead"]
    /\ UNCHANGED <<spinner_running, spinner_thread, stopped, pc, mode, i,
                   phase, executed, outcomes, report, term, hooks, cycles,
                   plan, menuVars>>
    /\ UNCHANGED raceVars

\* the loop body: write one frame, then sleep
SpinnerPrint(t) ==
    /\ thr[t] = "print"
    /\ term' = Append(term, Line("frame", t))
    /\ thr' = [thr EXCEPT ![t] = "check"]
    /\ UNCHANGED <<spinner_running, spinner_thread, stopped, pc, mode, i,
                   phase, executed, outcomes, report, hooks, cycles, plan,
                   menuVars>>
    /\ UNCHANGED raceVars

\* the print of the loop body raises (closed or broken output): nothing in
\* _spinner_loop catches it, the thread ends and its traceback is written
SpinnerCrash(t) ==
    /\ thr[t] = "print"
    /\ Count(term, "render_error") < MaxRenderErrors
    /\ term' = Append(term, Line("render_error", t))
    /\ thr' = [thr EXCEPT ![t] = "dead"]
    /\ UNCHANGED <<spinner_running, spinner_thread, stopped, pc, mode, i,
                   phase, executed, outcomes, report, hooks, cycles, plan,
                   menuVars>>
    /\ UNCHANGED raceVars

FreeTids == {t \in Tids : thr[t] \in {"unborn", "dead"}}

NewTid == CHOOSE t \in FreeTids : \A u \in FreeTids : t <= u

\* variant: the `if spinner_running: return` test is missing
start_spinner_noGuard ==
    /\ FreeTids # {}
    /\ spinner_running' = TRUE
    /\ spinner_thread' = NewTid
    /\ thr' = [thr EXCEPT ![NewTid] = "check"]
    /\ stopped' = stopped \ {NewTid}

start_spinner ==
    IF spinner_running
      THEN UNCHANGED <<spinner_running, spinner_thread, thr, stopped>>
      ELSE /\ FreeTids # {}
           /\ spinner_running' = TRUE
           /\ spinner_thread' = NewTid
           /\ thr' = [thr EXCEPT ![NewTid] = "check"]
           /\ stopped' = stopped \ {NewTid}

\* variant: the `if not spinner_running: return` test is missing
stop_spinner_noGuard ==
    /\ spinner_running' = FALSE
    /\ IF spinner_thread # None
         THEN /\ pc' = "join"
              /\ UNCHANGED <<term, cycles, stopped>>
         ELSE /\ term' = Append(term, Line("feshow", None))
              /\ cycles' = cycles + 1
              /\ UNCHANGED <<pc, stopped>>
    /\ UNCHANGED <<spinner_thread, thr>>

\* variant: the final line is printed without waiting in join()
stop_spinner_noJoin ==
    IF ~spinner_running
      THEN UNCHANGED <<spinner_running, spinner_thread, thr, stopped, term,
                       cycles, pc>>
      ELSE /\ spinner_running' = FALSE
           /\ term' = Append(term, Line("feshow", spinner_thread))
           /\ cycles' = cycles + 1
           /\ stopped' = IF spinner_thread # None
                            THEN stopped \cup {spinner_thread} ELSE stopped
           /\ UNCHANGED <<spinner_thread, thr, pc>>

\* stop_spinner up to the point where it blocks in join()
stop_spinner ==
    IF ~spinner_running
      THEN UNCHANGED <<spinner_running, spinner_thread, thr, stopped, term,
                       cycles, pc>>
      ELSE /\ spinner_running' = FALSE
           /\ IF spinner_thread # None
                THEN /\ pc' = "join"
                     /\ UNCHANGED <<term, cycles, stopped>>
                ELSE /\ term' = Append(term, Line("feshow", None))
                     /\ cycles' = cycles + 1
                     /\ UNCHANGED <<pc, stopped>>
           /\ UNCHANGED <<spinner_thread, thr>>

\* join() returns once the thread has ended; then the final line is printed
stop_spinner_join ==
    /\ pc = "join"
    /\ thr[spinner_thread] = "dead"
    /\ term' = Append(term, Line("feshow", spinner_thread))
    /\ stopped' = stopped \cup {spinner_thread}
    /\ cycles' = cycles + 1
    /\ pc' = "svc"
    /\ UNCHANGED <<spinner_running, spinner_thread, thr, mode, i, phase,
                   executed, outcomes, report, hooks, plan, menuVars>>
    /\ UNCHANGED raceVars

\* ------------------------------------------------------------------- hooks
\* variant: a 'downloading' event starts the spinner
print_progress_startsSpinner(status) ==
    IF status = "downloading"
      THEN /\ term' = Append(term, Line("progress", None))
           /\ start_spinner
      ELSE /\ IF status = "finished"
                THEN term' = Append(term, Line("dlfinished", None))
                ELSE UNCHANGED term
           /\ UNCHANGED <<spinner_running, spinner_thread, thr, stopped>>

print_progress(status) ==
    /\ IF status = "downloading"
         THEN term' = Append(term, Line("progress", None))
         ELSE IF status = "finished"
                THEN term' = Append(term, Line("dlfinished", None))
                ELSE UNCHANGED term
    /\ UNCHANGED <<spinner_running, spinner_thread, thr, stopped>>

post_hook_spinner(status) ==
    IF status = "started"
      THEN start_spinner /\ UNCHANGED <<term, cycles, pc>>
      ELSE IF status = "finished"
             THEN stop_spinner
             ELSE UNCHANGED <<spinner_running, spinner_thread, thr, stopped,
                              term, cycles, pc>>

\* ------------------------------------------- the service calling the hooks
SvcProgress ==
    /\ pc = "svc"
    /\ phase \in {"begin", "download"}
    /\ Count(term, "progress") < MaxProgress
    /\ print_progress("downloading")
    /\ phase' = "download"
    /\ UNCHANGED <<pc, mode, i, executed, outcomes, report, hooks, cycles,
                   plan, menuVars>>
    /\ UNCHANGED raceVars

SvcDownloadFinished ==
    /\ pc = "svc"
    /\ phase \in {"begin", "download"}
    /\ print_progress("finished")
    /\ phase' = "post"
    /\ UNCHANGED <<pc, mode, i, executed, outcomes, report, hooks, cycles,
                   plan, menuVars>>
    /\ UNCHANGED raceVars

SvcPostHook(status) ==
    /\ pc = "svc"
    /\ phase = "post"
    /\ Len(hooks) < MaxHooks
    /\ hooks' = Append(hooks, status)
    /\ post_hook_spinner(status)
    /\ UNCHANGED <<mode, i, phase, executed, outcomes, report, plan, menuVars>>
    /\ UNCHANGED raceVars

\* ---------------------------------------------------------------- strings
\* Typed text is a sequence of characters.
Space == " "
Backslash == "\\"

RECURSIVE LStripChars(_, _)
LStripChars(s, cs) ==
    IF s # << >> /\ Head(s) \in cs THEN LStripChars(Tail(s), cs) ELSE s

RECURSIVE RStripChars(_, _)
RStripChars(s, cs) ==
    IF s # << >> /\ s[Len(s)] \in cs
      THEN RStripChars(SubSeq(s, 1, Len(s) - 1), cs)
      ELSE s

\* str.strip(chars)
StripChars(s, cs) == RStripChars(LStripChars(s, cs), cs)

\* str.strip()
Strip(s) == StripChars(s, {Space})

IsPrefix(p, s) == Len(p) <= Len(s) /\ SubSeq(s, 1, Len(p)) = p

\* str.replace(old, new)
RECURSIVE Replace(_, _, _)
Replace(s, old, new) ==
    IF s = << >> THEN << >>
    ELSE IF IsPrefix(old, s)
           THEN new \o Replace(SubSeq(s, Len(old) + 1, Len(s)), old, new)
           ELSE <<Head(s)>> \o Replace(Tail(s), old, new)

\* ------------------------------------------------------------- file system
\* str(Path.home() / "Downloads"); the home directory's name has a space
default_downloads_path == <<"D", Space, "l">>

\* The default Downloads path is the one path of this world that can be a
\* directory; every other typed path does not exist.
isdir(path) == path = default_downloads_path /\ downloads = "dir"

exists(path) == path = default_downloads_path /\ downloads # "absent"

\* --------------------------------------------------------------- main_menu
UrlInputs == { << >>, <<Space>>, <<"u">>, <<Space, "u", Space>> }

PathInputs ==
    { <<"0">>, <<Space, "0">>, << >>, <<"x">>,
      <<"D", Space, "l">>, <<"'", "D", Space, "l", "'">>,
      <<"D", Backslash, Space, "l">> }

ModeOfChoice(c) ==
    CASE c = "1" -> "audio"
      [] c = "2" -> "video"
      [] c = "3" -> "protools"
      [] OTHER -> "none"

callVars == <<mode, i, phase, term, hooks, cycles, plan>>

\* variant: a second failure to locate ffmpeg is not reported
Startup_silent ==
    /\ pc = "start"
    /\ \E r1, r2 \in {FfmpegBin, NoPath} :
         IF r1 # NoPath
           THEN /\ ffmpeg_path' = r1
                /\ startup_out' = <<"using">>
           ELSE /\ ffmpeg_path' = r2
                /\ startup_out' =
                     <<"locate_error", "critical", "reinstalling">> \o
                     (IF r2 # NoPath THEN <<"using">> ELSE <<"locate_error">>)
    /\ pc' = "menu"
    /\ UNCHANGED <<spinnerVars, callVars, executed, outcomes, report, choice,
                   url, output_path, menu_out, downloads>>
    /\ UNCHANGED raceVars

\* lines 260-268: locate ffmpeg, reinstall and retry once, report a failure
Startup ==
    /\ pc = "start"
    /\ \E r1, r2 \in {FfmpegBin, NoPath} :
         IF r1 # NoPath
           THEN /\ ffmpeg_path' = r1
                /\ startup_out' = <<"using">>
           ELSE /\ ffmpeg_path' = r2
                /\ startup_out' =
                     <<"locate_error", "critical", "reinstalling">> \o
                     (IF r2 # NoPath THEN <<"using">>
                                     ELSE <<"locate_error", "config_failed">>)
    /\ pc' = "menu"
    /\ UNCHANGED <<spinnerVars, callVars, executed, outcomes, report, choice,
                   url, output_path, menu_out, downloads>>
    /\ UNCHANGED raceVars

\* the menu is printed and a choice is read; '0' leaves the loop
MenuChoice(c) ==
    /\ pc = "menu"
    /\ choice' = c
    /\ executed' = << >>
    /\ outcomes' = << >>
    /\ report' = << >>
    /\ IF c = "0"
         THEN menu_out' = <<"leaving">> /\ pc' = "exit"
         ELSE IF c \in {"1", "2", "3"}
                THEN menu_out' = << >> /\ pc' = "url"
                ELSE menu_out' = <<"invalid_choice">> /\ pc' = "menu"
    /\ UNCHANGED <<spinnerVars, callVars, ffmpeg_path, startup_out, url,
                   output_path, downloads>>
    /\ UNCHANGED raceVars

\* variant: the `if not url` test is missing
GetUrl_noCheck(raw) ==
    /\ pc = "url"
    /\ url' = Strip(raw)
    /\ UNCHANGED menu_out
    /\ pc' = "path"
    /\ UNCHANGED <<spinnerVars, callVars, executed, outcomes, report, choice,
                   ffmpeg_path, startup_out, output_path, downloads>>
    /\ UNCHANGED raceVars

\* get_url and the emptiness test of lines 285-288
GetUrl(raw) ==
    /\ pc = "url"
    /\ url' = Strip(raw)
    /\ IF Strip(raw) = << >>
         THEN menu_out' = Append(menu_out, "empty_url") /\ pc' = "menu"
         ELSE UNCHANGED menu_out /\ pc' = "path"
    /\ UNCHANGED <<spinnerVars, callVars, executed, outcomes, report, choice,
                   ffmpeg_path, startup_out, output_path, downloads>>
    /\ UNCHANGED raceVars

\* the path get_output_path derives from what was typed
CleanPath(raw) ==
    LET path_input == Strip(raw)
        path == IF path_input = << >> THEN default_downloads_path
                                      ELSE path_input
        unquoted == StripChars(StripChars(path, {"\""}), {"'"})
    IN  Replace(Replace(unquoted, <<Backslash, Backslash, Space>>, <<Space>>),
                <<Backslash, Space>>, <<Space>>)

\* one pass of the prompt loop of get_output_path, and on a returned path
\* the ffmpeg warning of lines 295-296; mkOk: os.makedirs succeeds
GetOutputPath(raw, mkOk) ==
    /\ pc = "path"
    /\ LET path == CleanPath(raw) IN
       IF Strip(raw) = <<"0">>
         THEN /\ pc' = "menu"
              /\ UNCHANGED <<output_path, menu_out, downloads>>
         ELSE IF isdir(path) \/ (path = default_downloads_path /\ ~exists(path) /\ mkOk)
                THEN /\ output_path' = path
                     /\ downloads' = IF path = default_downloads_path
                                        THEN "dir" ELSE downloads
                     /\ menu_out' = IF ffmpeg_path = NoPath
                                       THEN Append(menu_out, "ffmpeg_warning")
                                       ELSE menu_out
                     /\ pc' = "call"
                ELSE /\ pc' = "path"
                     /\ UNCHANGED <<output_path, menu_out, downloads>>
    /\ UNCHANGED <<spinnerVars, callVars, executed, outcomes, report, choice,
                   url, ffmpeg_path, startup_out>>
    /\ UNCHANGED raceVars

\* ------------------------------------------------- acquisition entry points
\* the statements that start one invocation of the service
Invoke(m, k) ==
    /\ executed' = Append(executed, [idx |-> k, url |-> url,
                                      opts |-> ydl_opts(m, plan[k])])
    /\ phase' = "begin"
    /\ term' = << >>
    /\ hooks' = << >>
    /\ cycles' = 0
    /\ pc' = "svc"

\* main_menu calling one of the three functions
Call(m) ==
    /\ pc = "call"
    /\ m = ModeOfChoice(choice)
    /\ mode' = m
    /\ plan' = PlanOf(m)
    /\ i' = 1
    /\ outcomes' = << >>
    /\ IF m = "audio"
         THEN /\ report' = << AudioStartMsg >>
              /\ executed' = << [idx |-> 1, url |-> url,
                                 opts |-> ydl_opts(m, PlanOf(m)[1])] >>
              /\ phase' = "begin"
              /\ term' = << >>
              /\ hooks' = << >>
              /\ cycles' = 0
              /\ pc' = "svc"
         ELSE /\ report' = << >>
              /\ executed' = << >>
              /\ pc' = "loop"
              /\ UNCHANGED <<phase, term, hooks, cycles>>
    /\ UNCHANGED <<spinnerVars, menuVars>>
    /\ UNCHANGED raceVars

\* variant: the next attempt is launched without waiting for this one
LoopHead_parallel ==
    /\ pc = "loop"
    /\ IF i <= Len(plan)
         THEN /\ report' = Append(report, TryingMsg(mode, plan[i]))
              /\ executed' =
                   executed \o
                   [k \in 1..(IF i < Len(plan) THEN 2 ELSE 1) |->
                      [idx |-> i + k - 1, url |-> url,
                       opts |-> ydl_opts(mode, plan[i + k - 1])]]
              /\ phase' = "begin"
              /\ term' = << >>
              /\ hooks' = << >>
              /\ cycles' = 0
              /\ pc' = "svc"
         ELSE /\ report' = Append(report, ExhaustedMsg(mode))
              /\ pc' = "menu"
              /\ UNCHANGED <<executed, phase, term, hooks, cycles>>
    /\ UNCHANGED <<spinnerVars, mode, i, outcomes, plan, menuVars>>
    /\ UNCHANGED raceVars

\* `for fmt in ...:` head, the print of the attempt, and the line after the loop
LoopHead ==
    /\ pc = "loop"
    /\ IF i <= Len(plan)
         THEN /\ report' = Append(report, TryingMsg(mode, plan[i]))
              /\ Invoke(mode, i)
         ELSE /\ report' = Append(report, ExhaustedMsg(mode))
              /\ pc' = "menu"
              /\ UNCHANGED <<executed, phase, term, hooks, cycles>>
    /\ UNCHANGED <<spinnerVars, mode, i, outcomes, plan, menuVars>>
    /\ UNCHANGED raceVars

\* variant: the success branch lacks its `return`
OnSuccess_noReturn ==
    /\ report' = Append(report, SuccessMsg(mode))
    /\ i' = i + 1
    /\ pc' = "loop"

\* ydl.download returned: print the success line and return
OnSuccess ==
    /\ report' = Append(report, SuccessMsg(mode))
    /\ pc' = "menu"
    /\ UNCHANGED i

\* variant: the failed attempt also skips its successor
OnDownloadError_skip(e) ==
    /\ report' = Append(report, FailedMsg(mode, plan[i], e))
    /\ i' = i + 2
    /\ pc' = "loop"

\* except yt_dlp.utils.DownloadError: print and continue
OnDownloadError(e) ==
    /\ report' = Append(report, FailedMsg(mode, plan[i], e))
    /\ i' = i + 1
    /\ pc' = "loop"

\* variant: `continue` in place of `return`
OnException_continue(e) ==
    /\ report' = Append(report, UnexpectedMsg(mode, e))
    /\ i' = i + 1
    /\ pc' = "loop"

\* variant: the exception leaves the function and ends the program
OnException_propagate(e) ==
    /\ UNCHANGED report
    /\ pc' = "exit"
    /\ UNCHANGED i

\* except Exception: print and return
OnException(e) ==
    /\ report' = Append(report, UnexpectedMsg(mode, e))
    /\ pc' = "menu"
    /\ UNCHANGED i

\* variant: download_audio given the two clauses of the video functions
Handle_audioLoops(e) ==
    IF e.cls = "DownloadError"
      THEN OnDownloadError(e)
      ELSE OnException(e)

\* which except clause takes the exception
Handle(e) ==
    IF mode = "audio"
      THEN OnException(e)
      ELSE IF e.cls = "DownloadError"
             THEN OnDownloadError(e)
             ELSE OnException(e)

\* a post-processing step has announced 'started' and nothing since
StepOpen == hooks # << >> /\ Last(hooks) = "started"

\* the download call returns normally: the download is over and no
\* post-processing step is under way
SvcReturn ==
    /\ pc = "svc"
    /\ phase = "post"
    /\ ~StepOpen
    /\ outcomes' = Append(outcomes, [res |-> "ok", err |-> NoErr])
    /\ OnSuccess
    /\ UNCHANGED <<spinnerVars, mode, phase, executed, term, hooks, cycles,
                   plan, menuVars>>
    /\ UNCHANGED raceVars

\* the download call raises, at any point of the invocation
SvcRaise(kind) ==
    /\ pc = "svc"
    /\ kind \in KindsAt(phase)
    /\ outcomes' = Append(outcomes, [res |-> "error", err |-> Err(kind, i)])
    /\ Handle(Err(kind, i))
    /\ UNCHANGED <<spinnerVars, mode, phase, executed, term, hooks, cycles,
                   plan, menuVars>>
    /\ UNCHANGED raceVars

Next ==
    \/ Startup
    \/ \E c \in {"0", "1", "2", "3", "9"} : MenuChoice(c)
    \/ \E raw \in UrlInputs : GetUrl(raw)
    \/ \E raw \in PathInputs, mkOk \in BOOLEAN : GetOutputPath(raw, mkOk)
    \/ \E m \in Modes : Call(m)
    \/ LoopHead
    \/ SvcProgress
    \/ SvcDownloadFinished
    \/ \E s \in {"started", "finished"} : SvcPostHook(s)
    \/ stop_spinner_join
    \/ SvcReturn
    \/ \E k \in ErrKinds : SvcRaise(k)
    \/ \E t \in Tids : SpinnerCheck(t)
    \/ \E t \in Tids : SpinnerPrint(t)
    \/ \E t \in Tids : SpinnerCrash(t)

Spec == Init /\ [][Next]_vars

\* the renderer thread is scheduled, and the primary task goes on once join()
\* can return
Fairness ==
    /\ \A t \in Tids :
         WF_vars(SpinnerCheck(t) \/ SpinnerPrint(t) \/ SpinnerCrash(t))
    /\ WF_vars(stop_spinner_join)

FairSpec == Spec /\ Fairness

\* ------------------------------------------- unguarded concurrent callers
\* start_spinner and stop_spinner statement by statement, as they run when
\* more than one task calls them: the module holds no lock around the globals.
raceRest == <<pc, mode, i, phase, executed, outcomes, report, hooks, cycles,
              plan, menuVars>>

\* line 55: `if spinner_running: return`
T_StartTest(k) ==
    /\ tpc[k] = "idle"
    /\ ncalls < MaxCalls
    /\ ncalls' = ncalls + 1
    /\ tpc' = [tpc EXCEPT ![k] = IF spinner_running THEN "idle" ELSE "start_set"]
    /\ UNCHANGED <<spinnerVars, term, tjoin, raceRest>>

\* line 57: `spinner_running = True`
T_StartSet(k) ==
    /\ tpc[k] = "start_set"
    /\ spinner_running' = TRUE
    /\ tpc' = [tpc EXCEPT ![k] = "start_spawn"]
    /\ UNCHANGED <<spinner_thread, thr, stopped, term, tjoin, ncalls, raceRest>>

\* lines 58-59: create and start the thread
T_StartSpawn(k) ==
    /\ tpc[k] = "start_spawn"
    /\ FreeTids # {}
    /\ spinner_thread' = NewTid
    /\ thr' = [thr EXCEPT ![NewTid] = "check"]
    /\ stopped' = stopped \ {NewTid}
    /\ tpc' = [tpc EXCEPT ![k] = "idle"]
    /\ UNCHANGED <<spinner_running, term, tjoin, ncalls, raceRest>>

\* line 64: `if not spinner_running: return`
T_StopTest(k) ==
    /\ tpc[k] = "idle"
    /\ ncalls < MaxCalls
    /\ ncalls' = ncalls + 1
    /\ tpc' = [tpc EXCEPT ![k] = IF spinner_running THEN "stop_clear" ELSE "idle"]
    /\ UNCHANGED <<spinnerVars, term, tjoin, raceRest>>

\* lines 66-68: clear the flag and call join() on the current thread object
T_StopClear(k) ==
    /\ tpc[k] = "stop_clear"
    /\ spinner_running' = FALSE
    /\ tjoin' = [tjoin EXCEPT ![k] = spinner_thread]
    /\ tpc' = [tpc EXCEPT ![k] = "stop_join"]
    /\ UNCHANGED <<spinner_thread, thr, stopped, term, ncalls, raceRest>>

\* lines 68-70: join() returns, the final line is printed
T_StopJoin(k) ==
    /\ tpc[k] = "stop_join"
    /\ tjoin[k] # None => thr[tjoin[k]] = "dead"
    /\ term' = Append(term, Line("feshow", tjoin[k]))
    /\ stopped' = IF tjoin[k] # None THEN stopped \cup {tjoin[k]} ELSE stopped
    /\ tpc' = [tpc EXCEPT ![k] = "idle"]
    /\ UNCHANGED <<spinner_running, spinner_thread, thr, tjoin, ncalls, raceRest>>

RaceNext ==
    \/ \E k \in Tasks : T_StartTest(k)
    \/ \E k \in Tasks : T_StartSet(k)
    \/ \E k \in Tasks : T_StartSpawn(k)
    \/ \E k \in Tasks : T_StopTest(k)
    \/ \E k \in Tasks : T_StopClear(k)
    \/ \E k \in Tasks : T_StopJoin(k)
    \/ \E t \in Tids : SpinnerCheck(t)
    \/ \E t \in Tids : SpinnerPrint(t)

RaceSpec == Init /\ [][RaceNext]_vars

\* --------------------------------------------- the loop over any plan list
\* download_video or download_video_protools at its `for` statement, the
\* list being iterated drawn from the empty list and the function's own.
InitAtLoop ==
    /\ spinner_running = FALSE
    /\ spinner_thread = None
    /\ thr = [t \in Tids |-> "unborn"]
    /\ stopped = {}
    /\ pc = "loop"
    /\ mode \in {"video", "protools"}
    /\ choice = (IF mode = "video" THEN "2" ELSE "3")
    /\ plan \in {<< >>, PlanOf(mode)}
    /\ i = 1
    /\ phase = "none"
    /\ executed = << >>
    /\ outcomes = << >>
    /\ report = << >>
    /\ term = << >>
    /\ hooks = << >>
    /\ cycles = 0
    /\ ffmpeg_path = FfmpegBin
    /\ startup_out = <<"using">>
    /\ url = <<"u">>
    /\ output_path = default_downloads_path
    /\ menu_out = << >>
    /\ downloads = "dir"
    /\ tpc = [k \in Tasks |-> "idle"]
    /\ tjoin = [k \in Tasks |-> None]
    /\ ncalls = 0

PlanSpec == (Init \/ InitAtLoop) /\ [][Next]_vars

TypeOK ==
    /\ spinner_running \in BOOLEAN
    /\ spinner_thread \in Tids \cup {None}
    /\ pc \in {"start", "menu", "url", "path", "call", "loop", "svc", "join",
              "exit"}
    /\ mode \in Modes \cup {"none"}

\* =================================================================== claims
VideoModes == {"video", "protools"}

\* a call of an entry point has completed and control is back in the menu
Returned == pc = "menu" /\ mode # "none"

Idle == ~spinner_running /\ Alive = {}

\* the selector named by the last "trying" line of the report
LastTried ==
    LET ks == {k \in DOMAIN report : report[k].type = "trying"}
        k == CHOOSE x \in ks : \A y \in ks : y <= x
    IN  report[k].fmts

\* C1: after any completed call of an entry point the coordinator is Idle:
\* spinner_running is False and no spinner thread is alive.
C1_IdleAfterCall == Returned => Idle

\* C2: once the download call of attempt k returns without raising, the
\* function has returned and attempt k is the last one ever executed.
C2_ShortCircuit ==
    mode \in VideoModes =>
      \A k \in DOMAIN outcomes :
        outcomes[k].res = "ok" =>
          /\ k = Len(outcomes)
          /\ pc = "menu"
          /\ Len(executed) = k
          /\ executed[k].idx = k

C2_Witness ==
    /\ mode \in VideoModes
    /\ Len(outcomes) = 2
    /\ outcomes[2].res = "ok"
    /\ pc = "menu"

\* C3: when attempts 1..k-1 fail recoverably and attempt k succeeds, the
\* attempts 1..k were executed once each in plan order and the outcome is the
\* success line that follows attempt k's own "trying" line.
C3_ContinuePastRecoverable ==
    (/\ mode \in VideoModes
     /\ Len(outcomes) >= 1
     /\ Last(outcomes).res = "ok"
     /\ \A j \in 1..(Len(outcomes) - 1) : outcomes[j].err.cls = "DownloadError")
    =>
      /\ Len(executed) = Len(outcomes)
      /\ \A j \in DOMAIN executed :
            /\ executed[j].idx = j
            /\ executed[j].opts.format = PlanOf(mode)[j]
      /\ Last(report) = SuccessMsg(mode)
      /\ Count(report, "concluded") = 1
      /\ LastTried = << PlanOf(mode)[Len(outcomes)] >>

C3_Witness ==
    /\ mode \in VideoModes
    /\ Len(outcomes) = 3
    /\ outcomes[1].err.cls = "DownloadError"
    /\ outcomes[2].err.cls = "DownloadError"
    /\ outcomes[3].res = "ok"
    /\ Len(executed) = 3

\* C4: when attempt k fails with an error taken by `except Exception`, no
\* later attempt is executed, the exhaustion line is not printed, and the
\* reported failure carries attempt k's own error detail.
C4_AbortOnUnrecoverable ==
    mode \in VideoModes =>
      \A k \in DOMAIN outcomes :
        outcomes[k].err.cls = "Exception" =>
          /\ k = Len(outcomes)
          /\ pc = "menu"
          /\ Len(executed) = k
          /\ Count(report, "exhausted") = 0
          /\ Last(report).type = "unexpected"
          /\ Last(report).errs = << outcomes[k].err >>
          /\ outcomes[k].err.at = k

C4_Witness ==
    /\ mode \in VideoModes
    /\ Len(outcomes) = 1
    /\ outcomes[1].err.cls = "Exception"
    /\ pc = "menu"

\* C5: only format/media-unavailable errors let the loop advance; after a
\* network, invalid-URL or engine error of attempt k no attempt after k is
\* executed.
C5_OnlyFormatErrorsAdvance ==
    mode \in VideoModes =>
      \A k \in DOMAIN outcomes :
        (outcomes[k].res = "error" /\ outcomes[k].err.kind # "format")
          => Len(executed) <= k

\* a post-processor hook call of the given status is being made in this step
HookCall(status) == hooks' = Append(hooks, status)

\* C6: at most one spinner thread is alive at any time, and start_spinner()
\* called while spinner_running is True changes no coordinator state.
C6_StartIdempotent ==
    /\ [](Cardinality(Alive) <= 1)
    /\ [][(HookCall("started") /\ spinner_running)
            => UNCHANGED <<spinner_running, spinner_thread, thr>>]_vars

\* two start calls in a row, one renderer
C6_Witness ==
    /\ \E k \in 1..(Len(hooks) - 1) :
          hooks[k] = "started" /\ hooks[k + 1] = "started"
    /\ Cardinality(Alive) = 1
    /\ spinner_running

\* C7: stop_spinner() called while spinner_running is False joins nothing,
\* prints nothing and leaves spinner_running and spinner_thread unchanged.
C7_StopIdleNoOp ==
    [][(HookCall("finished") /\ ~spinner_running)
        => UNCHANGED <<spinner_running, spinner_thread, thr, stopped, term,
                       cycles, pc>>]_vars

\* stop called before any start, and stop called again after a stop
C7_Witness ==
    /\ pc = "svc"
    /\ ~spinner_running
    /\ \/ hooks = <<"finished">> /\ spinner_thread = None
       \/ /\ Len(hooks) >= 3
          /\ hooks[Len(hooks)] = "finished"
          /\ hooks[Len(hooks) - 1] = "finished"
          /\ Count(term, "feshow") = 1

\* the plan ran out: the line after the loop is the last line printed
Exhausted == Len(report) >= 1 /\ Last(report).type = "exhausted"

\* C8 as stated: the exhaustion line itself names every attempted selector
\* together with that attempt's failure reason.
C8_ExhaustionLineNamesAll ==
    (mode \in VideoModes /\ Exhausted) =>
      /\ Last(report).fmts = PlanOf(mode)
      /\ Last(report).errs = [j \in DOMAIN outcomes |-> outcomes[j].err]

\* C8 amended: when every attempt fails recoverably all N attempts were
\* executed in order and each attempt's selector and failure reason were
\* printed when that attempt ran; the exhaustion line itself is a fixed text
\* naming no selector and no reason.
C8_PerAttemptLines ==
    (mode \in VideoModes /\ Exhausted) =>
      LET N == Len(PlanOf(mode)) IN
      /\ Len(executed) = N
      /\ Len(outcomes) = N
      /\ Len(report) = 2 * N + 1
      /\ \A j \in 1..N :
            /\ executed[j].idx = j
            /\ executed[j].opts.format = PlanOf(mode)[j]
            /\ outcomes[j].err.cls = "DownloadError"
            /\ report[2 * j - 1] = TryingMsg(mode, PlanOf(mode)[j])
            /\ report[2 * j].type = "failed"
            /\ report[2 * j].errs = << outcomes[j].err >>
            /\ outcomes[j].err.at = j
      /\ Last(report).fmts = << >>
      /\ Last(report).errs = << >>

C8_Witness ==
    /\ mode \in VideoModes
    /\ Exhausted
    /\ Len(outcomes) = 3
    /\ pc = "menu"

\* every post-processing step announced 'started' and then 'finished'
WellOrdered(h) ==
    /\ Len(h) % 2 = 0
    /\ \A k \in DOMAIN h :
          h[k] = (IF k % 2 = 1 THEN "started" ELSE "finished")

\* plan [A, B, C] of the editing-suite mode: A is reported unavailable, B
\* then succeeds after a download with progress events
ScenarioAB ==
    /\ mode = "protools"
    /\ pc = "menu"
    /\ Len(outcomes) = 2
    /\ outcomes[1].err.kind = "format"
    /\ outcomes[2].res = "ok"
    /\ Count(term, "dlfinished") = 1
    /\ WellOrdered(hooks)

\* a download progress hook call is being made in this step
ProgressCall ==
    \/ term' = Append(term, Line("progress", None))
    \/ term' = Append(term, Line("dlfinished", None))

\* C9 as stated: with one post-processing step, B makes the coordinator
\* cycle twice, once for the download and once for the post-processing.
C9_TwoCycles ==
    (ScenarioAB /\ hooks = <<"started", "finished">>) => cycles = 2

\* C9 amended: B wins, C is never executed, B's post-processing directives
\* are passed on; the download sub-operation never changes the coordinator,
\* which completes one cycle per post-processing step of B (started then
\* finished), and with at least one such step ends Idle.
C9_CyclePerPostStep ==
    /\ [](ScenarioAB =>
            /\ Len(executed) = 2
            /\ executed[2].opts.format = base_formats[2]
            /\ executed[2].opts.postprocessor_args = "libx264/aac"
            /\ Last(report) = SuccessMsg(mode)
            /\ LastTried = << base_formats[2] >>
            /\ cycles = Len(hooks) \div 2
            /\ (hooks # << >> => Idle))
    /\ [][ProgressCall => UNCHANGED <<spinner_running, spinner_thread, thr>>]_vars

C9_Witness ==
    /\ ScenarioAB
    /\ hooks = <<"started", "finished">>
    /\ cycles = 1
    /\ Idle

\* C10: stop_spinner() prints its final line and returns only after the
\* renderer thread has ended, and no frame is written by a thread whose
\* stop_spinner() has returned.
C10_StopWaitsForRenderer ==
    /\ [](\A t \in stopped : thr[t] = "dead")
    /\ [][\A t \in Tids :
            /\ term' = Append(term, Line("feshow", t)) => thr[t] = "dead"
            /\ term' = Append(term, Line("frame", t)) => t \notin stopped]_vars

\* a frame of thread t, then the final line of the stop that joined t
C10_Witness ==
    /\ pc = "svc"
    /\ \E t \in stopped :
         \E a, b \in DOMAIN term :
           /\ a < b
           /\ term[a] = Line("frame", t)
           /\ term[b] = Line("feshow", t)

\* the primary task is inside one of the three entry points
InCall == pc \in {"loop", "svc", "join"}

\* C11: at most one invocation of the service is in flight, and an attempt
\* is started only when every earlier invocation has returned or raised.
C11_Sequential ==
    /\ [](/\ Len(executed) - Len(outcomes) \in {0, 1}
          /\ (Len(executed) - Len(outcomes) = 1) <=> (pc \in {"svc", "join"}))
    /\ [][Len(executed') > Len(executed) =>
            /\ Len(executed') = Len(executed) + 1
            /\ Len(outcomes) = Len(executed)]_vars

\* the second attempt is in flight, the first has failed
C11_Witness ==
    /\ mode \in VideoModes
    /\ pc = "svc"
    /\ Len(executed) = 2
    /\ Len(outcomes) = 1

\* C12: when ffmpeg cannot be located, also after the reinstall, this is
\* reported before the menu loop and again before the entry point is called,
\* the attempts still start at the first plan entry and run the whole plan,
\* with no ffmpeg location.
C12_ConfigurationMissing ==
    (ffmpeg_path = NoPath /\ pc # "start") =>
      /\ Len(startup_out) = 5
      /\ startup_out[2] = "critical"
      /\ startup_out[5] = "config_failed"
      /\ (pc = "call" \/ InCall) => menu_out = <<"ffmpeg_warning">>
      /\ InCall => plan = PlanOf(mode)
      /\ \A j \in DOMAIN executed :
            /\ executed[j].idx = j
            /\ executed[j].opts.format = PlanOf(mode)[j]
            /\ executed[j].opts.ffmpeg_location = NoPath

\* the whole plan was tried without ffmpeg
C12_Witness ==
    /\ ffmpeg_path = NoPath
    /\ mode = "video"
    /\ Len(executed) = 3
    /\ Len(outcomes) = 3

\* C13: an entry point is called only with a non-empty URL and an existing
\* output directory; an empty URL or a cancelled path prompt goes back to the
\* menu and no attempt is started.
C13_InputPrecondition ==
    /\ []((pc = "call" \/ InCall) => (url # << >> /\ isdir(output_path)))
    /\ [](\A j \in DOMAIN executed :
            /\ executed[j].url # << >>
            /\ executed[j].url = url
            /\ isdir(executed[j].opts.outtmpl))
    /\ [][(pc = "url" /\ pc' # "url") =>
            pc' = (IF url' = << >> THEN "menu" ELSE "path")]_vars
    /\ [][(pc \in {"url", "path"} /\ pc' = "menu") =>
            (executed' = << >> /\ UNCHANGED callVars)]_vars

C13_Witness ==
    /\ pc = "svc"
    /\ Len(executed) = 1
    /\ executed[1].url = <<"u">>
    /\ executed[1].opts.outtmpl = default_downloads_path
    /\ downloads = "dir"

\* C20: the list an entry point iterates is non-empty and is the same on
\* every invocation: one selector for audio, the same three selectors in the
\* same order for each video mode, whatever the URL, directory or history.
C20_PlanFixed ==
    InCall =>
      /\ Len(plan) >= 1
      /\ plan = (CASE mode = "audio" -> audio_format
                   [] mode = "video" -> format_attempts
                   [] mode = "protools" -> base_formats)
      /\ Len(plan) = (IF mode = "audio" THEN 1 ELSE 3)
      /\ \A j \in DOMAIN executed :
            executed[j].idx = j /\ executed[j].opts.format = plan[j]

\* the third selector of the editing-suite plan is being tried
C20_Witness ==
    /\ mode = "protools"
    /\ pc = "svc"
    /\ Len(executed) = 3
    /\ executed[3].opts.format = "best"

\* C14 as stated: a 'downloading' progress event arriving while the
\* coordinator is Idle leaves it Running with one renderer thread.
C14_ProgressStartsSpinner ==
    [][(term' = Append(term, Line("progress", None)) /\ Idle)
        => (spinner_running' /\ Cardinality(Alive') = 1)]_vars

\* C14 amended: a 'downloading' progress event is tolerated in any state of
\* the coordinator: its line is printed and the coordinator is not started;
\* arriving while Idle it leaves the coordinator Idle.
C14_ProgressLeavesCoordinator ==
    [][term' = Append(term, Line("progress", None)) =>
        /\ spinner_running' = spinner_running
        /\ spinner_thread' = spinner_thread
        /\ Alive' = Alive
        /\ Idle => Idle'
        /\ pc' = "svc"]_vars

\* a progress line was printed with no post-processor event yet, still Idle
C14_Witness ==
    /\ pc = "svc"
    /\ phase = "download"
    /\ hooks = << >>
    /\ Count(term, "progress") = 1
    /\ Idle

\* C15 as stated: in every state a live spinner thread implies that
\* spinner_running is True.
C15_LiveOnlyWhileRunning == Alive # {} => spinner_running

\* C15 amended: a live spinner thread implies spinner_running is True except
\* inside stop_spinner() between clearing the flag and the end of join(),
\* where the joined thread is still live while spinner_running is False.
C15_LiveOnlyWhileRunningOrJoined ==
    \A t \in Alive : spinner_running \/ (pc = "join" /\ t = spinner_thread)

\* inside stop_spinner(): flag cleared, the thread not yet ended
C15_Witness ==
    /\ pc = "join"
    /\ ~spinner_running
    /\ spinner_thread \in Alive

\* C16: every stop_spinner() that waits in join() eventually returns.
C16_StopReturns == (pc = "join") ~> (pc = "svc")

\* a stop that had to wait for a live renderer has returned
C16_Witness ==
    /\ pc = "svc"
    /\ hooks # << >>
    /\ Last(hooks) = "finished"
    /\ spinner_thread \in stopped
    /\ cycles >= 1
    /\ ~spinner_running

\* C19: an error raised while a frame is rendered is swallowed by the
\* renderer, which goes on rendering, and it changes nothing of the
\* acquisition.
C19_RenderErrorSwallowed ==
    [][\A t \in Tids :
         term' = Append(term, Line("render_error", t)) =>
           /\ thr'[t] \in {"check", "print"}
           /\ UNCHANGED <<pc, i, executed, outcomes, report>>]_vars

\* C17: when two tasks call start_spinner()/stop_spinner() concurrently no
\* interleaving yields two live renderer threads, nor a Running coordinator
\* without renderer once both calls are over.
C17_MutualExclusion ==
    /\ Cardinality(Alive) <= 1
    /\ ((\A k \in Tasks : tpc[k] = "idle") /\ spinner_running) => Alive # {}

C21_NoSpinnerWhileDownloading ==
    [][term' = Append(term, Line("progress", None)) => ~spinner_running]_vars

\* C22: whatever the download call does (returns, raises DownloadError,
\* raises another Exception) the function goes on to its next attempt or
\* returns to the menu, the loop returns to the menu once it is over, and
\* the menu is left only on choice '0'.
C22_ReturnsToMenu ==
    [][/\ (pc = "svc" /\ outcomes' # outcomes) =>
            pc' = (IF mode \in VideoModes /\ Last(outcomes').err.cls = "DownloadError"
                     THEN "loop" ELSE "menu")
       /\ (pc = "loop" /\ pc' \notin {"loop", "svc"}) => pc' = "menu"
       /\ (pc' = "exit" /\ pc # "exit") => (pc = "menu" /\ choice' = "0")]_vars

C22_Witness ==
    /\ pc = "menu"
    /\ mode = "protools"
    /\ Len(outcomes) = 2
    /\ outcomes[1].err.cls = "DownloadError"
    /\ outcomes[2].err.cls = "Exception"

\* C23: download_audio makes one download call and no more; when that call
\* fails, whatever the error, the function prints its error line and returns.
C23_AudioSingleInvocation ==
    mode = "audio" =>
      /\ Len(executed) <= 1
      /\ Len(outcomes) <= 1
      /\ pc # "loop"
      /\ Count(report, "trying") = 0
      /\ (outcomes # << >> /\ outcomes[1].res = "error") =>
            /\ pc = "menu"
            /\ Len(executed) = 1
            /\ report = << AudioStartMsg, UnexpectedMsg("audio", outcomes[1].err) >>

C23_Witness ==
    /\ mode = "audio"
    /\ pc = "menu"
    /\ Len(outcomes) = 1
    /\ outcomes[1].err.kind = "format"

====
